---- MODULE Spec2Model ----
(***************************************************************************)
(* Model of the redox-os `event` crate: RawEventQueue / EventQueue<U> over *)
(* the kernel event channel, in its two implementations:                   *)
(*   "lib"      - src/src/lib.rs      (the `event:` scheme file)           *)
(*   "wrappers" - src/src/wrappers.rs (the redox_event_queue_*_v1 calls)   *)
(* The kernel side of the channel is not part of the crate; it is modelled *)
(* from the channel protocol of spec.md (4.1, 6).                          *)
(***************************************************************************)
EXTENDS Integers, Sequences, FiniteSets, TLC

VARIABLES
    impl,       \* which implementation is built: "lib" or "wrappers"
    utype,      \* the U of EventQueue<U>: "usize" or "enum" (a user_data! enum)
    qstate,     \* "none" (not created), "open", "dropped"
    pc,         \* "idle", "reading" (inside next(), after EINTR), "panicked"
    subs,       \* channel: the subscriptions it holds
    pending,    \* channel: records ready and not yet read, oldest first
    arrived,    \* history: every record the channel made ready, in order
    delivered,  \* history: every record a read took from the channel, in order
    events,     \* history: every Ok event next() returned, in order
    written,    \* the record the last successful write put on the channel
    ret,        \* what the last call returned
    call,       \* the last call: operation, arguments, the channel's answer
    nwrites,    \* number of records written to the channel so far
    live,       \* registrations <<fd, tag>> made and not cancelled by the caller
    cancelled   \* registrations <<fd, tag>> the caller cancelled

vars == <<impl, utype, qstate, pc, subs, pending, arrived, delivered, events,
          written, ret, call, nwrites, live, cancelled>>

---------------------------------------------------------------------------
(* Bounds of the model *)

NumVariants == 2
MaxWrites == 3
MaxArrive == 2
MaxOps == 2

---------------------------------------------------------------------------
(* EventFlags *)

READ == 1
WRITE == 2
EVENT_READ == 1
EVENT_WRITE == 2

contains(value, flag) == (value \div flag) % 2 = 1

FlagsEmpty == 0

set(this, flag, on) ==
    IF on THEN (IF contains(this, flag) THEN this ELSE this + flag)
          ELSE (IF contains(this, flag) THEN this - flag ELSE this)

FromSyscall_Swapped(value) ==
    set(set(FlagsEmpty, READ, contains(value, EVENT_WRITE)),
        WRITE, contains(value, EVENT_READ))

FromSyscall(value) ==
    set(set(FlagsEmpty, READ, contains(value, EVENT_READ)),
        WRITE, contains(value, EVENT_WRITE))

IntoSyscall(value) ==
    set(set(FlagsEmpty, EVENT_READ, contains(value, READ)),
        EVENT_WRITE, contains(value, READ))

bits(flags) == flags

from_bits_retain(b) == b

AllFlags == {FlagsEmpty, READ, WRITE, READ + WRITE}

---------------------------------------------------------------------------
(* UserData *)

Fds == {3, 7}
Tags == 0..NumVariants
Errnos == {"EINTR", "EBADF"}

NoVal == <<"none", 0>>

UValues(u) ==
    IF u = "usize" THEN {<<"usize", k>> : k \in Tags}
                   ELSE {<<"Variant", k>> : k \in 0..(NumVariants - 1)}

into_user_data_Zero(v) == 0

into_user_data(v) == v[2]

transmute(u, raw) == IF u = "usize" THEN <<"usize", raw>> ELSE <<"Variant", raw>>

from_user_data_Unchecked(u, raw) == [panic |-> FALSE, val |-> transmute(u, raw)]

from_user_data(u, raw) ==
    IF u = "usize" THEN [panic |-> FALSE, val |-> transmute(u, raw)]
    ELSE IF raw < NumVariants THEN [panic |-> FALSE, val |-> transmute(u, raw)]
    ELSE [panic |-> TRUE, val |-> NoVal]

---------------------------------------------------------------------------
(* Records, events and return values *)

Rec(id, flags, data, val) == [id |-> id, flags |-> flags, data |-> data, val |-> val]

NoRecord == Rec(0, 0, 0, NoVal)

Event(user_data, flags, fd) == [user_data |-> user_data, flags |-> flags, fd |-> fd]

NoEvent == Event(NoVal, 0, 0)

Ret(kind, errno, ev) == [kind |-> kind, errno |-> errno, ev |-> ev]

Call(op, fd, val, flags, outcome) ==
    [op |-> op, fd |-> fd, val |-> val, flags |-> flags, outcome |-> outcome]

NoReg == <<0, 0>>

---------------------------------------------------------------------------
(* The kernel side of the channel *)

ChannelWrite(S, rec) ==
    LET rest == {s \in S : ~(s.id = rec.id /\ s.data = rec.data)}
    IN  IF rec.flags = 0 THEN rest ELSE rest \cup {rec}

Deliverable(fd, tag) == \E s \in subs : s.id = fd /\ s.data = tag

ReadyFlags(f) ==
    {g \in 1..(READ + WRITE) :
        /\ contains(g, EVENT_READ) => contains(f, EVENT_READ)
        /\ contains(g, EVENT_WRITE) => contains(f, EVENT_WRITE)}

InjectFlags == {EVENT_READ, EVENT_WRITE + 4}

Arrive(rec) ==
    /\ qstate = "open"
    /\ pc # "panicked"
    /\ pending' = Append(pending, rec)
    /\ arrived' = Append(arrived, rec)
    /\ UNCHANGED <<impl, utype, qstate, pc, subs, delivered, events, written,
                   ret, call, nwrites, live, cancelled>>

Ready(s, g) == Arrive(Rec(s.id, g, s.data, s.val))

Inject(id, g, data) == Arrive(Rec(id, g, data, NoVal))

---------------------------------------------------------------------------
(* RawEventQueue *)

LibRawSubscribe(fd, user_data, flags) ==
    [id |-> fd, data |-> user_data, flags |-> IntoSyscall(flags)]

LibRawUnsubscribe(fd, flags) ==
    [id |-> fd, flags |-> IntoSyscall(flags), data |-> 0]

WrapRawSubscribe(fd, user_data, flags) ==
    [id |-> fd, flags |-> bits(flags), data |-> user_data]

WrapRawUnsubscribe(fd) == WrapRawSubscribe(fd, 0, FlagsEmpty)

buf_count_Batch == 1 + 1

buf_count == 1

LibRawNext_Swallow(outcome, rec) ==
    CASE outcome = "eof" -> Ret("none", "", NoEvent)
      [] outcome = "record" ->
            Ret("some_ok", "", Event(rec.data, FromSyscall(rec.flags), rec.id))
      [] OTHER -> Ret("continue", "", NoEvent)

LibRawNext(outcome, rec) ==
    CASE outcome = "eof" -> Ret("none", "", NoEvent)
      [] outcome = "record" ->
            Ret("some_ok", "", Event(rec.data, FromSyscall(rec.flags), rec.id))
      [] outcome = "EINTR" -> Ret("continue", "", NoEvent)
      [] OTHER -> Ret("some_err", outcome, NoEvent)

WrapNextEvent(outcome, rec) ==
    IF outcome \in Errnos THEN Ret("err", outcome, NoEvent)
    ELSE LET res == IF outcome = "record" THEN 1 ELSE 0
         IN  IF res # 1 THEN Ret("panic", "", NoEvent)
             ELSE Ret("ok", "", Event(rec.data, rec.flags, rec.id))

WrapRawNext(outcome, rec) ==
    LET r == WrapNextEvent(outcome, rec)
    IN  CASE r.kind = "ok" -> Ret("some_ok", "", r.ev)
          [] r.kind = "err" -> Ret("some_err", r.errno, NoEvent)
          [] OTHER -> r

---------------------------------------------------------------------------
(* EventQueue<U> *)

RawNext(i, outcome, rec) ==
    IF i = "lib" THEN LibRawNext(outcome, rec) ELSE WrapRawNext(outcome, rec)

EventQueueNext(i, u, outcome, rec) ==
    LET res == RawNext(i, outcome, rec)
    IN  IF res.kind # "some_ok" THEN res
        ELSE LET d == from_user_data(u, res.ev.user_data)
             IN  IF d.panic THEN Ret("panic", "", NoEvent)
                 ELSE Ret("some_ok", "",
                          Event(d.val,
                                IF i = "lib" THEN res.ev.flags
                                             ELSE from_bits_retain(res.ev.flags),
                                res.ev.fd))

New(outcome) ==
    /\ qstate = "none"
    /\ qstate' = IF outcome = "ok" THEN "open" ELSE "none"
    /\ ret' = IF outcome = "ok" THEN Ret("ok", "", NoEvent)
                                ELSE Ret("err", outcome, NoEvent)
    /\ call' = Call("new", 0, NoVal, 0, outcome)
    /\ UNCHANGED <<impl, utype, pc, subs, pending, arrived, delivered, events,
                   written, nwrites, live, cancelled>>

Write(rec, val, outcome) ==
    /\ qstate = "open"
    /\ pc = "idle"
    /\ nwrites' = IF outcome = "ok" THEN nwrites + 1 ELSE nwrites
    /\ IF outcome = "ok"
         THEN /\ subs' = ChannelWrite(subs, Rec(rec.id, rec.flags, rec.data, val))
              /\ written' = Rec(rec.id, rec.flags, rec.data, val)
              /\ ret' = Ret("ok", "", NoEvent)
         ELSE /\ subs' = subs
              /\ written' = NoRecord
              /\ ret' = Ret("err", outcome, NoEvent)
    /\ UNCHANGED <<impl, utype, qstate, pc, pending, arrived, delivered, events>>

Subscribe(fd, data, flags, outcome) ==
    LET rec == IF impl = "lib"
                 THEN LibRawSubscribe(fd, into_user_data(data), flags)
                 ELSE WrapRawSubscribe(fd, into_user_data(data), flags)
        reg == <<fd, rec.data>>
    IN  /\ Write(rec, data, outcome)
        /\ call' = Call("subscribe", fd, data, flags, outcome)
        /\ live' = IF outcome # "ok" THEN live
                   ELSE IF rec.flags # 0 THEN live \cup {reg} ELSE live \ {reg}
        /\ cancelled' = IF outcome = "ok" /\ rec.flags # 0
                          THEN cancelled \ {reg} ELSE cancelled

Cancel(fd, flags, rec, which, outcome) ==
    /\ which \in (IF {r \in live : r[1] = fd} = {} THEN {NoReg}
                  ELSE {r \in live : r[1] = fd})
    /\ Write(rec, NoVal, outcome)
    /\ call' = Call("unsubscribe", fd, NoVal, flags, outcome)
    /\ live' = IF outcome # "ok" THEN live
               ELSE IF rec.flags = 0 THEN live \ {which}
               ELSE live \cup {<<fd, rec.data>>}
    /\ cancelled' = IF outcome # "ok" THEN cancelled
                    ELSE IF rec.flags = 0 THEN (cancelled \cup {which}) \ {NoReg}
                    ELSE cancelled \ {<<fd, rec.data>>}

LibUnsubscribe(fd, flags, which, outcome) ==
    /\ impl = "lib"
    /\ Cancel(fd, flags, LibRawUnsubscribe(fd, flags), which, outcome)

WrapUnsubscribe(fd, which, outcome) ==
    /\ impl = "wrappers"
    /\ Cancel(fd, FlagsEmpty, WrapRawUnsubscribe(fd), which, outcome)

Min(a, b) == IF a < b THEN a ELSE b

QueueNext(outcome) ==
    /\ qstate = "open"
    /\ pc \in {"idle", "reading"}
    /\ outcome = "record" => pending # <<>>
    /\ outcome = "eof" => pending = <<>>
    /\ LET n == IF outcome = "record" THEN Min(buf_count, Len(pending)) ELSE 0
           rec == IF outcome = "record" THEN Head(pending) ELSE NoRecord
           r == EventQueueNext(impl, utype, outcome, rec)
       IN  /\ pending' = SubSeq(pending, n + 1, Len(pending))
           /\ delivered' = delivered \o SubSeq(pending, 1, n)
           /\ events' = IF r.kind = "some_ok" THEN Append(events, r.ev) ELSE events
           /\ pc' = CASE r.kind = "continue" -> "reading"
                      [] r.kind = "panic" -> "panicked"
                      [] OTHER -> "idle"
           /\ ret' = IF r.kind = "continue" THEN ret ELSE r
    /\ call' = Call("next", 0, NoVal, 0, outcome)
    /\ UNCHANGED <<impl, utype, qstate, subs, arrived, written, nwrites, live,
                   cancelled>>

Drop(outcome) ==
    /\ qstate = "open"
    /\ pc = "idle"
    /\ qstate' = "dropped"
    /\ ret' = Ret("unit", "", NoEvent)
    /\ call' = Call("drop", 0, NoVal, 0, outcome)
    /\ UNCHANGED <<impl, utype, pc, subs, pending, arrived, delivered, events,
                   written, nwrites, live, cancelled>>

---------------------------------------------------------------------------
(* The specification *)

Init ==
    /\ impl \in {"lib", "wrappers"}
    /\ utype \in {"usize", "enum"}
    /\ qstate = "none"
    /\ pc = "idle"
    /\ subs = {}
    /\ pending = <<>>
    /\ arrived = <<>>
    /\ delivered = <<>>
    /\ events = <<>>
    /\ written = NoRecord
    /\ ret = Ret("unit", "", NoEvent)
    /\ call = Call("none", 0, NoVal, 0, "ok")
    /\ nwrites = 0
    /\ live = {}
    /\ cancelled = {}

Outcomes == {"ok"} \cup Errnos

ReadOutcomes == {"record", "eof"} \cup Errnos

CallNew == \E o \in Outcomes : New(o)

CallSubscribe ==
    \E fd \in Fds, v \in UValues(utype), f \in AllFlags, o \in Outcomes :
        Subscribe(fd, v, f, o)

CallLibUnsubscribe ==
    \E fd \in Fds, f \in AllFlags, w \in live \cup {NoReg}, o \in Outcomes :
        LibUnsubscribe(fd, f, w, o)

CallWrapUnsubscribe ==
    \E fd \in Fds, w \in live \cup {NoReg}, o \in Outcomes :
        WrapUnsubscribe(fd, w, o)

CallNext == \E o \in ReadOutcomes : QueueNext(o)

CallDrop == \E o \in Outcomes : Drop(o)

KernelReady == \E s \in subs : \E g \in ReadyFlags(s.flags) : Ready(s, g)

KernelInject == \E id \in Fds, g \in InjectFlags, t \in Tags : Inject(id, g, t)

(* The crate over a kernel that reports readiness of what was subscribed. *)
Next ==
    \/ CallNew
    \/ nwrites + Len(arrived) < MaxOps /\ CallSubscribe
    \/ nwrites + Len(arrived) < MaxOps /\ CallLibUnsubscribe
    \/ nwrites + Len(arrived) < MaxOps /\ CallWrapUnsubscribe
    \/ nwrites + Len(arrived) < MaxOps /\ KernelReady
    \/ CallNext
    \/ CallDrop

Spec == Init /\ [][Next]_vars

(* The registration calls alone. *)
NextWrite ==
    \/ CallNew
    \/ nwrites < MaxWrites /\ CallSubscribe
    \/ nwrites < MaxWrites /\ CallLibUnsubscribe
    \/ nwrites < MaxWrites /\ CallWrapUnsubscribe
    \/ CallDrop

SpecWrite == Init /\ [][NextWrite]_vars

(* The read path over a channel that may deliver any record. *)
NextRead ==
    \/ CallNew
    \/ Len(arrived) < MaxArrive /\ KernelInject
    \/ CallNext
    \/ CallDrop

SpecRead == Init /\ [][NextRead]_vars

---------------------------------------------------------------------------
(* Properties *)

Last(q) == q[Len(q)]

Failed(o) == o \in Errnos \ {"EINTR"}

(* next() was aborted by the bounds assertion of from_user_data *)
DecodePanicked ==
    pc = "panicked" /\ call.op = "next" /\ call.outcome = "record"

\* C1: a successful subscribe(fd, tag, flags) writes one record with id = fd,
\* data = tag, the READ bit set iff READ was requested and the WRITE bit set
\* iff WRITE was requested.
C1_SubscribeWritesRequestedFlags ==
    (call.op = "subscribe" /\ call.outcome = "ok") =>
        /\ written.id = call.fd
        /\ written.data = call.val[2]
        /\ contains(written.flags, EVENT_READ) <=> contains(call.flags, READ)
        /\ contains(written.flags, EVENT_WRITE) <=> contains(call.flags, WRITE)

\* C2: a successful unsubscribe on a descriptor writes a record for that
\* descriptor with empty flags, whatever the caller passed.
C2_UnsubscribeWritesEmptyFlags ==
    (call.op = "unsubscribe" /\ call.outcome = "ok") =>
        /\ written.id = call.fd
        /\ ~contains(written.flags, EVENT_READ)
        /\ ~contains(written.flags, EVENT_WRITE)

\* C3: next() never returns an EINTR error; after an interrupted read the
\* call is still in progress and re-issues the read.
C3_EintrNeverSurfaced ==
    /\ ~(call.op = "next" /\ ret.kind = "some_err" /\ ret.errno = "EINTR")
    /\ (call.op = "next" /\ call.outcome = "EINTR") => pc = "reading"

\* C4 (as stated): every channel failure other than EINTR, a failed
\* close/destroy included, is returned to the caller of the operation.
C4_EveryFailureReported ==
    Failed(call.outcome) =>
        /\ ret.kind \in {"err", "some_err"}
        /\ ret.errno = call.outcome

\* C4 (amended): a failed open, write or read other than EINTR is returned
\* to the caller with the same error (new/subscribe/unsubscribe return
\* Err(e), next() yields Some(Err(e))), and no call returns an error the
\* channel did not give; a failed destroy in drop is discarded.
C4_FailuresReportedExceptDrop ==
    /\ (call.op \in {"new", "subscribe", "unsubscribe"} /\ Failed(call.outcome)) =>
          ret = Ret("err", call.outcome, NoEvent)
    /\ (call.op = "next" /\ Failed(call.outcome)) =>
          ret = Ret("some_err", call.outcome, NoEvent)
    /\ (pc # "reading" /\ ret.kind \in {"err", "some_err"}) =>
          ret.errno = call.outcome
    /\ call.op = "drop" => ret.kind = "unit"

C4_Witness ==
    /\ call.op = "next"
    /\ call.outcome = "EBADF"
    /\ ret = Ret("some_err", "EBADF", NoEvent)
    /\ pending # <<>>

C6_CancelOneKeepsOther ==
    \A fd \in Fds, t1 \in Tags, t2 \in Tags :
        (t1 # t2 /\ <<fd, t1>> \in cancelled /\ <<fd, t2>> \in live) =>
            /\ Deliverable(fd, t2)
            /\ ~Deliverable(fd, t1)

\* C7: a read that fills zero records makes next() return None, with no
\* error and no crash.
C7_ZeroReadIsEndOfIteration ==
    (call.op = "next" /\ call.outcome = "eof") =>
        /\ ret.kind = "none"
        /\ pc = "idle"

\* C8 (as stated): an out-of-range tag produces a decode error returned to
\* the caller, never an abort.
C8_OutOfRangeIsDecodeError ==
    (/\ utype = "enum"
     /\ call.op = "next"
     /\ call.outcome = "record"
     /\ delivered # <<>>
     /\ Last(delivered).data >= NumVariants) =>
        /\ ret.kind = "some_err"
        /\ pc # "panicked"

\* C8 (amended): decoding a tag into a user_data! enum is bounds-checked: no
\* event ever carries a value that is not a variant, and an out-of-range tag
\* (raw >= number of variants) fails the assertion, so that next() panics
\* without yielding an event, rather than returning a decode error.
C8_OutOfRangePanics ==
    utype = "enum" =>
        /\ \A i \in 1..Len(events) : events[i].user_data \in UValues("enum")
        /\ (/\ call.op = "next"
            /\ call.outcome = "record"
            /\ delivered # <<>>
            /\ Last(delivered).data >= NumVariants) =>
              /\ pc = "panicked"
              /\ ret.kind = "panic"
              /\ Len(events) = Len(delivered) - 1

C8_Witness ==
    /\ utype = "enum"
    /\ pc = "panicked"
    /\ delivered # <<>>
    /\ Last(delivered).data >= NumVariants
    /\ Len(events) = Len(delivered) - 1

\* C9: into_user_data maps the n variants onto 0..n-1, from_user_data undoes
\* it for every variant and every usize, and an event produced for a
\* subscription made with subscribe(fd, v, flags) carries user_data = v.
C9_TagRoundTrip ==
    /\ \A v \in UValues("enum") : into_user_data(v) \in 0..(NumVariants - 1)
    /\ \A v \in UValues("enum"), w \in UValues("enum") :
          into_user_data(v) = into_user_data(w) => v = w
    /\ \A v \in UValues(utype) :
          from_user_data(utype, into_user_data(v)) = [panic |-> FALSE, val |-> v]
    /\ \A i \in 1..Len(events) :
          delivered[i].val # NoVal => events[i].user_data = delivered[i].val

C9_Witness ==
    /\ utype = "enum"
    /\ events # <<>>
    /\ delivered[1].val = <<"Variant", NumVariants - 1>>
    /\ events[1].user_data = <<"Variant", NumVariants - 1>>

====
